---- MODULE Spec2Model ----
(***************************************************************************)
(* Model of app.py: a Streamlit script that indexes the documents of a     *)
(* Google Drive folder into a FAISS vector store kept in the session state *)
(* and answers questions over it.  One script run is one request: a click  *)
(* on "Indexar Carpeta", a click on "Obtener Respuesta", or a plain rerun. *)
(***************************************************************************)
EXTENDS Integers, Sequences, FiniteSets, TLC

(***************************************************************************)
(* Bounds of the model.                                                    *)
(***************************************************************************)
\* Depth at which the interpreter gives up a runaway recursion
\* (RecursionError); the real limit is about 1000 frames.
MaxDepth == 3
\* Number of fragments the retriever returns at most (top-k).
TopK == 1

(***************************************************************************)
(* Program constants.                                                      *)
(***************************************************************************)
chunk_size == 1000
chunk_overlap == 100

Sessions == {"A", "B"}

(***************************************************************************)
(* The Drive repository the service account can see.  Folder ids are       *)
(* character sequences, as the id cut out of the URL is.                   *)
(*   R -> S, T     S -> T   (T is reachable from R by two paths)           *)
(*   C -> C                 (a folder reported as its own descendant)      *)
(*   B, K                   (folders holding an unreadable document)       *)
(***************************************************************************)
GDOC == "application/vnd.google-apps.document"
TXT == "text/plain"
MD == "text/markdown"

Folders == {<<"R">>, <<"S">>, <<"T">>, <<"B">>, <<"K">>, <<"C">>}

d1 == [id |-> "d1", name |-> "plan", mimeType |-> GDOC]
d2 == [id |-> "d2", name |-> "notes", mimeType |-> TXT]
d3 == [id |-> "d3", name |-> "gone", mimeType |-> GDOC]
d4 == [id |-> "d4", name |-> "blank", mimeType |-> MD]
d5 == [id |-> "d5", name |-> "readme", mimeType |-> MD]
d6 == [id |-> "d6", name |-> "latin1", mimeType |-> TXT]
d7 == [id |-> "d7", name |-> "odd"]

Docs == {d1, d2, d3, d4, d5, d6, d7}

\* files().list(q = "'<folder_id>' in parents and mimeType in (doc, txt, md)")
DriveFiles(folder_id) ==
    CASE folder_id = <<"R">> -> <<d1>>
      [] folder_id = <<"S">> -> <<d2>>
      [] folder_id = <<"T">> -> <<d3, d4>>
      [] folder_id = <<"B">> -> <<d5, d6>>
      [] folder_id = <<"K">> -> <<d7, d5>>
      [] OTHER -> <<>>

\* files().list(q = "'<folder_id>' in parents and mimeType = folder")
DriveSubfolders(folder_id) ==
    CASE folder_id = <<"R">> -> << <<"S">>, <<"T">> >>
      [] folder_id = <<"S">> -> << <<"T">> >>
      [] folder_id = <<"C">> -> << <<"C">> >>
      [] OTHER -> <<>>

\* What export_media / get_media deliver for a file id: an HttpError, or
\* bytes, given by their length and by whether they are valid UTF-8.
DriveMedia(file_id) ==
    CASE file_id = "d1" -> [http |-> "ok", utf8 |-> TRUE, len |-> 1500]
      [] file_id = "d2" -> [http |-> "ok", utf8 |-> TRUE, len |-> 400]
      [] file_id = "d3" -> [http |-> "HttpError", utf8 |-> TRUE, len |-> 0]
      [] file_id = "d4" -> [http |-> "ok", utf8 |-> TRUE, len |-> 0]
      [] file_id = "d5" -> [http |-> "ok", utf8 |-> TRUE, len |-> 900]
      [] file_id = "d6" -> [http |-> "ok", utf8 |-> FALSE, len |-> 300]
      [] OTHER -> [http |-> "ok", utf8 |-> TRUE, len |-> 200]

(***************************************************************************)
(* Pure helpers.                                                           *)
(***************************************************************************)
None == [kind |-> "None"]

Last(seq) == seq[Len(seq)]

IndexOf(seq, c) ==
    IF \E k \in 1..Len(seq) : seq[k] = c
    THEN CHOOSE k \in 1..Len(seq) : seq[k] = c /\ \A j \in 1..(k - 1) : seq[j] # c
    ELSE 0

\* str.split(sep): the pieces between the separators, empty pieces included.
RECURSIVE Split(_, _)
Split(str, sep) ==
    IF IndexOf(str, sep) = 0
    THEN <<str>>
    ELSE <<SubSeq(str, 1, IndexOf(str, sep) - 1)>>
         \o Split(SubSeq(str, IndexOf(str, sep) + 1, Len(str)), sep)

\* folder_url.split('/')[-1].split('?')[0]
FolderIdOf(url) == Head(Split(Last(Split(url, "/")), "?"))

\* get_doc_content, the body: the text (given by its length) or what it raises.
\* Only HttpError is caught and turned into the empty string.
DocContentBody(doc_object) ==
    IF ~({"id", "mimeType"} \subseteq DOMAIN doc_object)
    THEN [raised |-> "KeyError", len |-> 0]
    ELSE LET media == DriveMedia(doc_object.id)
         IN  IF media.http # "ok" THEN [raised |-> "none", len |-> 0]
             ELSE IF ~media.utf8 THEN [raised |-> "UnicodeDecodeError", len |-> 0]
             ELSE [raised |-> "none", len |-> media.len]

\* @st.cache_data(ttl=600) around get_doc_content: a value that was returned
\* is kept per argument; a call that raises stores nothing.
get_doc_content(doc_object, dcache) ==
    IF doc_object \in DOMAIN dcache
    THEN [raised |-> "none", len |-> dcache[doc_object], hit |-> TRUE, cache |-> dcache]
    ELSE LET r == DocContentBody(doc_object)
         IN  [raised |-> r.raised, len |-> r.len, hit |-> FALSE,
              cache |-> IF r.raised = "none"
                        THEN (doc_object :> r.len) @@ dcache ELSE dcache]

\* RecursiveCharacterTextSplitter(chunk_size, chunk_overlap): the number of
\* chunks of a text of the given length.
NumChunks(len) ==
    IF len = 0 THEN 0
    ELSE IF len <= chunk_size THEN 1
    ELSE 1 + ((len - chunk_size) + (chunk_size - chunk_overlap) - 1)
                 \div (chunk_size - chunk_overlap)

\* create_documents([content], metadatas=[{"source": doc['name']}])
Chunks(doc, len) == [k \in 1..NumChunks(len) |-> [source |-> doc.name, part |-> k]]

(***************************************************************************)
(* get_all_docs_from_folder under @st.cache_resource.  The cache belongs   *)
(* to the process: fcache maps a folder id to the list a finished call     *)
(* returned (and, for the record, the session whose request computed it).  *)
(* env = [failing, reentry, by]: the folders whose listing raises          *)
(* HttpError during this request, what a call does that re-enters a key    *)
(* still being computed ("recurse": run the body again; "block": wait for  *)
(* the value for ever), and the requesting session.                        *)
(* The result: docs, the cache afterwards, the folder ids listed on Drive  *)
(* in order, the sessions whose listings the docs come from, and status    *)
(* "ok", "RecursionError" or "blocked".                                    *)
(***************************************************************************)
Abort(st, fcache, listed) ==
    [docs |-> <<>>, cache |-> fcache, listed |-> listed, from |-> {}, status |-> st]

RECURSIVE get_all_docs_from_folder(_, _, _, _, _)
RECURSIVE VisitSubfolders(_, _, _, _, _, _)

\* for subfolder in subfolders: docs.extend(get_all_docs_from_folder(subfolder))
VisitSubfolders(subfolders, k, acc, env, inprogress, depth) ==
    IF k > Len(subfolders) \/ acc.status # "ok"
    THEN acc
    ELSE LET r == get_all_docs_from_folder(subfolders[k], acc.cache, env,
                                           inprogress, depth + 1)
         IN  VisitSubfolders(subfolders, k + 1,
                 [docs |-> acc.docs \o r.docs, cache |-> r.cache,
                  listed |-> acc.listed \o r.listed,
                  from |-> acc.from \cup r.from, status |-> r.status],
                 env, inprogress, depth)

get_all_docs_from_folder(folder_id, fcache, env, inprogress, depth) ==
    IF folder_id \in DOMAIN fcache
    THEN [docs |-> fcache[folder_id].docs, cache |-> fcache, listed |-> <<>>,
          from |-> {fcache[folder_id].by}, status |-> "ok"]
    ELSE IF folder_id \in inprogress /\ env.reentry = "block"
    THEN Abort("blocked", fcache, <<>>)
    ELSE IF depth > MaxDepth
    THEN Abort("RecursionError", fcache, <<>>)
    ELSE IF folder_id \in env.failing
    THEN \* except HttpError: st.error(...); return []
         [docs |-> <<>>,
          cache |-> (folder_id :> [docs |-> <<>>, by |-> env.by]) @@ fcache,
          listed |-> <<folder_id>>, from |-> {env.by}, status |-> "ok"]
    ELSE LET r == VisitSubfolders(DriveSubfolders(folder_id), 1,
                      [docs |-> DriveFiles(folder_id), cache |-> fcache,
                       listed |-> <<folder_id>>, from |-> {env.by}, status |-> "ok"],
                      env, inprogress \cup {folder_id}, depth)
         IN  IF r.status # "ok"
             THEN Abort(r.status, r.cache, r.listed)
             ELSE [docs |-> r.docs,
                   cache |-> (folder_id :> [docs |-> r.docs, by |-> env.by]) @@ r.cache,
                   listed |-> r.listed, from |-> r.from, status |-> "ok"]

\* The most often any one folder was listed on Drive in a root call.
MostListed(listed) ==
    IF listed = <<>> THEN 0
    ELSE LET count(f) == Cardinality({k \in 1..Len(listed) : listed[k] = f})
         IN  CHOOSE n \in 1..Len(listed) :
                 /\ \E k \in 1..Len(listed) : count(listed[k]) = n
                 /\ \A k \in 1..Len(listed) : count(listed[k]) <= n

(***************************************************************************)
(* The state.  Everything indexed by a session is that session's own       *)
(* (st.session_state, the widgets, the locals of its script run); the two  *)
(* caches belong to the process.                                           *)
(***************************************************************************)
VARIABLES
    vector_db,      \* st.session_state.vector_db: None or the index
    folder_url,     \* the text of the folder URL input
    question,       \* the text of the question area
    request,        \* what started the session's last script run
    pc,             \* where the session's script run stands
    all_docs,       \* the list get_all_docs_from_folder returned
    doc_i,          \* the position of create_vector_db's loop in docs
    all_texts_with_metadata,  \* the chunks gathered so far
    new_db,         \* what create_vector_db returns
    relevant_docs,  \* what the retriever returned
    button,         \* "Obtener Respuesta" as last rendered
    messages,       \* what the run has shown (st.warning, st.error, ...)
    io,             \* the calls to outside services made in the run
    raised,         \* the exception that left the script, or "none"
    most_listed,    \* MostListed of the run's call of get_all_docs_from_folder
    docs_from,      \* the sessions whose listings all_docs comes from
    folder_cache,   \* st.cache_resource of get_all_docs_from_folder
    doc_cache       \* st.cache_data of get_doc_content

vars == <<vector_db, folder_url, question, request, pc, all_docs, doc_i,
          all_texts_with_metadata, new_db, relevant_docs, button, messages,
          io, raised, most_listed, docs_from, folder_cache, doc_cache>>

build_locals == <<all_docs, doc_i, all_texts_with_metadata, new_db>>

\* The inputs a user may give.  "f/R/" yields the empty id, which names no folder.
URLs ==
    { <<>>,
      <<"f", "/", "R">>, <<"f", "/", "S", "?", "u">>, <<"T">>,
      <<"f", "/", "B">>, <<"f", "/", "K">>, <<"f", "/", "C">>,
      <<"f", "/", "R", "/">> }
Questions == {"", "q"}
\* The listings that fail with HttpError during one request.
FailChoices == {{}, {<<"S">>}}

\* The button is never disabled.
Disabled_Never(db) == FALSE

\* disabled=(st.session_state.vector_db is None)
Disabled(db) == db = None

\* What the script renders from line 152 on.
RenderButton(db) == IF Disabled(db) THEN "disabled" ELSE "enabled"
RenderInfo(db) == IF db = None THEN {"info_not_indexed"} ELSE {}

Init ==
    /\ vector_db = [s \in Sessions |-> None]
    /\ folder_url = [s \in Sessions |-> <<>>]
    /\ question = [s \in Sessions |-> ""]
    /\ request = [s \in Sessions |-> "open"]
    /\ pc = [s \in Sessions |-> "idle"]
    /\ all_docs = [s \in Sessions |-> <<>>]
    /\ doc_i = [s \in Sessions |-> 0]
    /\ all_texts_with_metadata = [s \in Sessions |-> <<>>]
    /\ new_db = [s \in Sessions |-> None]
    /\ relevant_docs = [s \in Sessions |-> {}]
    /\ button = [s \in Sessions |-> RenderButton(None)]
    /\ messages = [s \in Sessions |-> RenderInfo(None)]
    /\ io = [s \in Sessions |-> {}]
    /\ raised = [s \in Sessions |-> "none"]
    /\ most_listed = [s \in Sessions |-> 0]
    /\ docs_from = [s \in Sessions |-> {}]
    /\ folder_cache = <<>>
    /\ doc_cache = <<>>

Set(f, s, v) == [f EXCEPT ![s] = v]

Range(seq) == {seq[k] : k \in 1..Len(seq)}

\* The locals of create_vector_db and of the handler are gone with the run.
DropLocals(s) ==
    /\ all_docs' = Set(all_docs, s, <<>>)
    /\ doc_i' = Set(doc_i, s, 0)
    /\ all_texts_with_metadata' = Set(all_texts_with_metadata, s, <<>>)
    /\ new_db' = Set(new_db, s, None)

\* The run leaves the script with an uncaught exception: Streamlit shows the
\* traceback and nothing below the raising line is rendered.
Uncaught(s, exc) ==
    /\ raised' = Set(raised, s, exc)
    /\ messages' = Set(messages, s, messages[s] \cup {"exception"})
    /\ pc' = Set(pc, s, "idle")

(***************************************************************************)
(* Click on "Indexar Carpeta" (lines 137-150), up to the entry of          *)
(* create_vector_db's loop.  The (IndexError, AttributeError) handler of   *)
(* line 147 is never entered: neither split nor any call below raises one. *)
(***************************************************************************)
IndexClick(s, url, failing, reentry) ==
    LET folder_id == FolderIdOf(url)
        r == IF url = <<>>
             THEN Abort("ok", folder_cache, <<>>)
             ELSE get_all_docs_from_folder(folder_id, folder_cache,
                      [failing |-> failing, reentry |-> reentry, by |-> s], {}, 1)
        errs == IF Range(r.listed) \cap failing # {} THEN {"error_listing"} ELSE {}
        enters == url # <<>> /\ r.status = "ok" /\ r.docs # <<>>
    IN  /\ pc[s] = "idle"
        /\ folder_url' = Set(folder_url, s, url)
        /\ request' = Set(request, s, "index")
        /\ relevant_docs' = Set(relevant_docs, s, {})
        /\ folder_cache' = r.cache
        /\ most_listed' = Set(most_listed, s, MostListed(r.listed))
        /\ docs_from' = Set(docs_from, s, r.from)
        /\ all_docs' = Set(all_docs, s, IF enters THEN r.docs ELSE <<>>)
        /\ doc_i' = Set(doc_i, s, IF enters THEN 1 ELSE 0)
        /\ all_texts_with_metadata' = Set(all_texts_with_metadata, s, <<>>)
        /\ new_db' = Set(new_db, s, None)
        /\ io' = Set(io, s, IF r.listed # <<>> THEN {"list"} ELSE {})
        /\ UNCHANGED <<vector_db, question, doc_cache>>
        /\ CASE url = <<>> ->
                  \* st.warning("Por favor, introduce una URL de carpeta.")
                  /\ messages' = Set(messages, s, {"warning_no_url"}
                                                  \cup RenderInfo(vector_db[s]))
                  /\ button' = Set(button, s, RenderButton(vector_db[s]))
                  /\ raised' = Set(raised, s, "none")
                  /\ pc' = Set(pc, s, "idle")
             [] url # <<>> /\ r.status = "blocked" ->
                  /\ messages' = Set(messages, s, errs)
                  /\ raised' = Set(raised, s, "none")
                  /\ pc' = Set(pc, s, "blocked")
                  /\ UNCHANGED button
             [] url # <<>> /\ r.status = "RecursionError" ->
                  /\ messages' = Set(messages, s, errs \cup {"exception"})
                  /\ raised' = Set(raised, s, "RecursionError")
                  /\ button' = Set(button, s, "absent")
                  /\ pc' = Set(pc, s, "idle")
             [] url # <<>> /\ r.status = "ok" /\ r.docs = <<>> ->
                  \* st.warning("No se encontraron documentos ...")
                  /\ messages' = Set(messages, s, errs \cup {"warning_no_docs"}
                                                  \cup RenderInfo(vector_db[s]))
                  /\ button' = Set(button, s, RenderButton(vector_db[s]))
                  /\ raised' = Set(raised, s, "none")
                  /\ pc' = Set(pc, s, "idle")
             [] enters ->
                  /\ messages' = Set(messages, s, errs)
                  /\ raised' = Set(raised, s, "none")
                  /\ pc' = Set(pc, s, "reading")
                  /\ UNCHANGED button

\* The test of line 109 is missing.
AfterLoop_NoEmptyTest(texts) == "embedding"

\* Where create_vector_db goes once its loop is over (lines 109-113).
AfterLoop(texts) == IF texts = <<>> THEN "returned" ELSE "embedding"

(***************************************************************************)
(* One turn of create_vector_db's loop (lines 98-107) and, after the last  *)
(* document, the test of line 109.                                         *)
(***************************************************************************)
ReadDoc(s) ==
    /\ pc[s] = "reading"
    /\ doc_i[s] <= Len(all_docs[s])
    /\ LET doc == all_docs[s][doc_i[s]]
           c == get_doc_content(doc, doc_cache)
           texts == IF c.len > 0
                    THEN all_texts_with_metadata[s] \o Chunks(doc, c.len)
                    ELSE all_texts_with_metadata[s]
           last == doc_i[s] = Len(all_docs[s])
       IN  /\ doc_cache' = c.cache
           /\ io' = Set(io, s, io[s] \cup (IF c.hit \/ c.raised = "KeyError"
                                           THEN {} ELSE {"fetch"}))
           /\ IF c.raised # "none"
              THEN /\ Uncaught(s, c.raised)
                   /\ button' = Set(button, s, "absent")
                   /\ DropLocals(s)
              ELSE /\ doc_i' = Set(doc_i, s, doc_i[s] + 1)
                   /\ all_texts_with_metadata' = Set(all_texts_with_metadata, s, texts)
                   /\ pc' = Set(pc, s, IF last THEN AfterLoop(texts) ELSE "reading")
                   /\ messages' = Set(messages, s,
                         messages[s] \cup (IF last /\ AfterLoop(texts) = "returned"
                                           THEN {"warning_no_content"} ELSE {}))
                   /\ UNCHANGED <<raised, button, all_docs, new_db>>
    /\ UNCHANGED <<vector_db, folder_url, question, request, relevant_docs,
                   most_listed, docs_from, folder_cache>>

\* FAISS.from_documents(all_texts_with_metadata, embedding=embeddings).  The
\* index remembers the list of documents it was built for and its builder.
FaissFromDocuments(s, texts, docs) ==
    [kind |-> "FAISS", frags |-> texts, corpus |-> docs, by |-> s]

\* The index is built in place: a failed build leaves what was embedded.
IndexAfterFailedBuild_InPlace(s) ==
    FaissFromDocuments(s, SubSeq(all_texts_with_metadata[s], 1,
                                 Len(all_texts_with_metadata[s]) - 1), all_docs[s])

\* What the session holds when the embedding step has failed.
IndexAfterFailedBuild(s) == vector_db[s]

(***************************************************************************)
(* Lines 113-121: the embedding service and the index constructor.  Either *)
(* may fail (ok = FALSE); nothing in the script catches that.              *)
(***************************************************************************)
Embed(s, ok) ==
    /\ pc[s] = "embedding"
    /\ io' = Set(io, s, io[s] \cup {"embed"})
    /\ IF ok
       THEN /\ new_db' = Set(new_db, s,
                   FaissFromDocuments(s, all_texts_with_metadata[s], all_docs[s]))
            /\ pc' = Set(pc, s, "returned")
            /\ UNCHANGED <<raised, messages, button, vector_db, all_docs, doc_i,
                           all_texts_with_metadata>>
       ELSE /\ Uncaught(s, "EmbeddingError")
            /\ button' = Set(button, s, "absent")
            /\ vector_db' = Set(vector_db, s, IndexAfterFailedBuild(s))
            /\ DropLocals(s)
    /\ UNCHANGED <<folder_url, question, request, relevant_docs, most_listed,
                   docs_from, folder_cache, doc_cache>>

(***************************************************************************)
(* Line 144, the assignment of create_vector_db's result, and the rest of  *)
(* the script (no query was clicked in this run).                          *)
(***************************************************************************)
Store(s) ==
    /\ pc[s] = "returned"
    /\ vector_db' = Set(vector_db, s, new_db[s])
    /\ button' = Set(button, s, RenderButton(new_db[s]))
    /\ messages' = Set(messages, s, messages[s] \cup RenderInfo(new_db[s]))
    /\ pc' = Set(pc, s, "idle")
    /\ DropLocals(s)
    /\ UNCHANGED <<folder_url, question, request, relevant_docs, io, raised,
                   most_listed, docs_from, folder_cache, doc_cache>>

\* retriever.get_relevant_documents(question): at most TopK fragments of the
\* index; the retriever may find none.
Retrievals(db) ==
    IF db = None THEN {{}}
    ELSE {rel \in SUBSET Range(db.frags) : Cardinality(rel) <= TopK}

(***************************************************************************)
(* Click on "Obtener Respuesta" (lines 152-189), possible only when the    *)
(* button was last rendered enabled.  gen_ok tells whether the generation   *)
(* service answers; no try surrounds chain.invoke.                         *)
(***************************************************************************)
QueryClick(s, q, rel, gen_ok) ==
    /\ pc[s] = "idle"
    /\ button[s] = "enabled"
    /\ question' = Set(question, s, q)
    /\ request' = Set(request, s, "query")
    /\ button' = Set(button, s, RenderButton(vector_db[s]))
    /\ pc' = Set(pc, s, "idle")
    /\ most_listed' = Set(most_listed, s, 0)
    /\ docs_from' = Set(docs_from, s, {})
    /\ CASE q = "" ->
              \* st.warning("Por favor, escribe una pregunta.")
              /\ messages' = Set(messages, s, {"warning_no_question"}
                                              \cup RenderInfo(vector_db[s]))
              /\ io' = Set(io, s, {})
              /\ raised' = Set(raised, s, "none")
              /\ relevant_docs' = Set(relevant_docs, s, {})
         [] q # "" /\ vector_db[s] = None ->
              \* None.as_retriever()
              /\ messages' = Set(messages, s, {"exception"})
              /\ io' = Set(io, s, {})
              /\ raised' = Set(raised, s, "AttributeError")
              /\ relevant_docs' = Set(relevant_docs, s, {})
         [] q # "" /\ vector_db[s] # None ->
              /\ relevant_docs' = Set(relevant_docs, s, rel)
              \* chain.invoke follows get_relevant_documents unconditionally
              /\ io' = Set(io, s, {"retrieve", "generate"})
              /\ messages' = Set(messages, s,
                     IF gen_ok THEN {"success"} ELSE {"exception"})
              /\ raised' = Set(raised, s,
                     IF gen_ok THEN "none" ELSE "GenerationError")
    /\ UNCHANGED <<vector_db, folder_url, build_locals, folder_cache, doc_cache>>

\* A script run started by anything but the two buttons.
Rerun(s) ==
    /\ pc[s] = "idle"
    /\ request' = Set(request, s, "rerun")
    /\ button' = Set(button, s, RenderButton(vector_db[s]))
    /\ messages' = Set(messages, s, RenderInfo(vector_db[s]))
    /\ io' = Set(io, s, {})
    /\ raised' = Set(raised, s, "none")
    /\ relevant_docs' = Set(relevant_docs, s, {})
    /\ most_listed' = Set(most_listed, s, 0)
    /\ docs_from' = Set(docs_from, s, {})
    /\ UNCHANGED <<vector_db, folder_url, question, pc, build_locals,
                   folder_cache, doc_cache>>

\* ttl=600: the entries of get_doc_content's cache expire.
DocCacheExpire ==
    /\ doc_cache # <<>>
    /\ doc_cache' = <<>>
    /\ UNCHANGED <<vector_db, folder_url, question, request, pc, build_locals,
                   relevant_docs, button, messages, io, raised, most_listed,
                   docs_from, folder_cache>>

Step(s, urls, fails) ==
    \/ \E url \in urls, failing \in fails, reentry \in {"recurse", "block"} :
           IndexClick(s, url, failing, reentry)
    \/ ReadDoc(s)
    \/ \E ok \in BOOLEAN : Embed(s, ok)
    \/ Store(s)
    \/ \E q \in Questions, rel \in Retrievals(vector_db[s]), gen_ok \in BOOLEAN :
           QueryClick(s, q, rel, gen_ok)
    \/ Rerun(s)

\* One session.
Next ==
    \/ Step("A", URLs, FailChoices)
    \/ DocCacheExpire

Spec == Init /\ [][Next]_vars

\* Two sessions of one process, both indexing the folder S.
SharedURLs == {<<"f", "/", "S", "?", "u">>}

NextSessions ==
    \/ \E s \in Sessions : Step(s, SharedURLs, FailChoices)
    \/ DocCacheExpire

SpecSessions == Init /\ [][NextSessions]_vars

(***************************************************************************)
(* Properties.                                                             *)
(***************************************************************************)
GetDocContentErrors == {"KeyError", "UnicodeDecodeError"}
BuildErrors == GetDocContentErrors \cup {"EmbeddingError", "RecursionError"}

\* C1: whatever keeps a document's content from being retrieved or decoded,
\* get_doc_content returns the empty string instead of raising, so no index
\* run ends with an exception raised in get_doc_content.
C1_GetDocContentNeverRaises ==
    \A s \in Sessions : raised[s] \notin GetDocContentErrors

\* get_doc_content(doc) == ""
FetchedEmpty(doc) ==
    DocContentBody(doc).raised = "none" /\ DocContentBody(doc).len = 0

AllEmpty(docs) == docs # <<>> /\ \A k \in 1..Len(docs) : FetchedEmpty(docs[k])

\* C2: for a non-empty list of documents whose fetched contents are all
\* empty, create_vector_db returns None without raising and never reaches
\* the embedding service or the index constructor.
C2_AllEmptyReturnsNone ==
    \A s \in Sessions :
        AllEmpty(all_docs[s]) =>
            /\ pc[s] \in {"reading", "returned"}
            /\ "embed" \notin io[s]
            /\ raised[s] = "none"
            /\ pc[s] = "returned" => new_db[s] = None

C2_Witness ==
    \E s \in Sessions :
        /\ AllEmpty(all_docs[s])
        /\ Len(all_docs[s]) >= 2
        /\ pc[s] = "returned"
        /\ new_db[s] = None

\* An index run has ended without producing an index.
EndedWithoutIndex(s) ==
    /\ pc[s] = "idle"
    /\ request[s] = "index"
    /\ folder_url[s] # <<>>
    /\ \/ "warning_no_docs" \in messages[s]
       \/ "warning_no_content" \in messages[s]
       \/ raised[s] \in BuildErrors

\* C3: when an index run with a non-empty URL ends without producing an
\* index (no document found, every document empty, or the build raised),
\* the session's index is None, whatever it was before.
C3_FailedIndexingLeavesEmpty ==
    \A s \in Sessions : EndedWithoutIndex(s) => vector_db[s] = None

\* The fragments of every document of the list whose content is not empty.
RECURSIVE FragmentsOf(_)
FragmentsOf(docs) ==
    IF docs = <<>> THEN <<>>
    ELSE (IF DocContentBody(Head(docs)).raised = "none"
          THEN Chunks(Head(docs), DocContentBody(Head(docs)).len)
          ELSE <<>>) \o FragmentsOf(Tail(docs))

WholeOrAbsent(db) ==
    \/ db = None
    \/ /\ db.kind = "FAISS"
       /\ db.frags # <<>>
       /\ db.frags = FragmentsOf(db.corpus)

\* C4: the session's index is always either absent or the complete index of
\* one build (the fragments of every non-empty document of its list), also
\* after a build that failed in the embedding step; and the session's index
\* is only ever written with what create_vector_db has returned.
C4_IndexWholeOrAbsent ==
    /\ [](\A s \in Sessions : WholeOrAbsent(vector_db[s]))
    /\ [][\A s \in Sessions :
            vector_db'[s] # vector_db[s] =>
                pc[s] = "returned" /\ vector_db'[s] = new_db[s]]_vars

C4_Witness ==
    \E s \in Sessions :
        /\ raised[s] = "EmbeddingError"
        /\ vector_db[s] # None
        /\ \E k \in 1..Len(vector_db[s].corpus) : FetchedEmpty(vector_db[s].corpus[k])

\* C5: when the retriever returns no fragment, the answer is the fixed
\* "insufficient information" result and the generation service is not
\* called in that query.
C5_NoContextShortCircuit ==
    \A s \in Sessions :
        ("retrieve" \in io[s] /\ relevant_docs[s] = {}) =>
            /\ "generate" \notin io[s]
            /\ "insufficient_information" \in messages[s]

\* C6: a failure of the generation service is caught in the query step: the
\* run shows an error result, no exception leaves the handler, and the
\* session is ready again with its index.
C6_GenerationFailureCaught ==
    \A s \in Sessions :
        "generate" \in io[s] =>
            /\ raised[s] = "none"
            /\ pc[s] = "idle"
            /\ vector_db[s] # None

InputError(s) ==
    \/ request[s] = "index" /\ folder_url[s] = <<>>
    \/ request[s] = "index" /\ FolderIdOf(folder_url[s]) \notin Folders
    \/ request[s] = "query" /\ question[s] = ""

\* C7: a request with an input error (empty URL, URL that yields no valid
\* folder reference, empty question) makes no call to any outside service
\* and reports a warning or an error.
C7_InputErrorsBeforeIO ==
    \A s \in Sessions :
        InputError(s) =>
            /\ io[s] = {}
            /\ messages[s] \cap {"warning_no_url", "warning_no_question",
                                 "error_bad_url"} # {}

\* C8: one call of get_all_docs_from_folder on a root lists every folder at
\* most once and terminates, whatever graph the repository reports.
C8_EachFolderListedOnce ==
    \A s \in Sessions :
        /\ most_listed[s] <= 1
        /\ pc[s] # "blocked"
        /\ raised[s] # "RecursionError"

\* What the repository holds under a folder, listed afresh without failure.
RepositoryDocs(folder_id) ==
    get_all_docs_from_folder(folder_id, <<>>,
        [failing |-> {}, reentry |-> "recurse", by |-> "A"], {}, 1).docs

\* The session's index request has its document list, and no listing of its
\* own failed.
ObtainedList(s) ==
    /\ request[s] = "index"
    /\ folder_url[s] # <<>>
    /\ "error_listing" \notin messages[s]
    /\ pc[s] = "reading" \/ "warning_no_docs" \in messages[s]

\* C9: neither the index nor the document list is shared by the sessions:
\* the index a session holds was built by that session, and the listings of
\* another session never change the document list a session's own index
\* request obtains for its folder.
C9_CorpusAndIndexPerSession ==
    \A s \in Sessions :
        /\ vector_db[s] # None => vector_db[s].by = s
        /\ (ObtainedList(s) /\ ~(docs_from[s] \subseteq {s})) =>
               all_docs[s] = RepositoryDocs(FolderIdOf(folder_url[s]))

\* C10: retrieval only runs on an index that is not None (None.as_retriever()
\* is never reached), the query button is never enabled while the index is
\* None, and a query run leaves the index as it was.
C10_QueryOnlyOnIndex ==
    /\ [](\A s \in Sessions :
            /\ raised[s] # "AttributeError"
            /\ "retrieve" \in io[s] => vector_db[s] # None
            /\ vector_db[s] = None => button[s] # "enabled")
    /\ [][\A s \in Sessions :
            request'[s] = "query" => vector_db'[s] = vector_db[s]]_vars

C10_Witness ==
    \E s \in Sessions :
        /\ request[s] = "query"
        /\ "retrieve" \in io[s]
        /\ relevant_docs[s] # {}

====
